---- MODULE Spec2Model ----
(***************************************************************************)
(* Model of the lazy-freeze protocol of lazy_freeze/decorator.py: a class  *)
(* is registered with lazy_freeze, one instance of it is constructed, and  *)
(* hash calls and mutation attempts are made on the instance.              *)
(*                                                                         *)
(* An instance is its attribute dictionary (attrs, a function whose domain *)
(* is the set of attributes that exist) and, for item-supporting classes,  *)
(* its item storage (items).  The freeze flag is the instance attribute    *)
(* 'hash_taken' and the capture site is the instance attribute             *)
(* '_hash_stack_trace', exactly as the decorator stores them.  Python's    *)
(* True and False are the integers 1 and 0.                                *)
(***************************************************************************)
EXTENDS Integers, FiniteSets, Sequences, TLC

\* ------------------------------------------------------------------ bounds
MaxVal == 1     \* attribute and item values are 0..MaxVal
MaxSite == 2    \* call sites (stack traces) are 1..MaxSite
MaxElem == 2    \* hashable list elements are 1..MaxElem
MaxLen == 2     \* an lf_list holds at most MaxLen elements

Vals == 0 .. MaxVal
Sites == 1 .. MaxSite

\* ------------------------------------------------------- names of the code
PyTrue == 1
\* The attribute names user code assigns and deletes: the hashed attribute,
\* an attribute the hash does not read, and the name the freeze flag is
\* stored under.  Item keys: one equal to a protected name, one not.
AttrNames == {"value", "description", "hash_taken"}
Keys == {"value", "k"}
\* The values user code assigns: booleans to the flag, Vals to the others.
AssignVals(n) == IF n = "hash_taken" THEN {0, PyTrue} ELSE Vals

core_methods == {"__setattr__", "__delattr__"}
optional_operations == {"__setitem__", "__delitem__", "__iadd__"}
named_methods == {"__setattr__", "__delattr__", "__setitem__", "__delitem__"}

\* The values lazy_freeze is applied to: non-class values, a class with the
\* default hash, a class whose __hash__ is None, a dict-like class and a
\* counter-like class (CustomDict, AttributeContainer and Counter of examples.py).
\* hashKind: "default" = object.__hash__, "custom" = the class or a parent
\* defines __hash__, "none" = __hash__ is None (the class defines __eq__ only).
Targets ==
  { [isClass |-> FALSE, hashKind |-> "custom", defines |-> {}],
    [isClass |-> FALSE, hashKind |-> "default", defines |-> {}],
    [isClass |-> TRUE, hashKind |-> "default", defines |-> {}],
    [isClass |-> TRUE, hashKind |-> "none", defines |-> {}],
    [isClass |-> TRUE, hashKind |-> "custom", defines |-> {"__setitem__", "__delitem__"}],
    [isClass |-> TRUE, hashKind |-> "custom", defines |-> {"__iadd__"}] }

\* protected_attrs arguments: None or empty (protect everything), and a
\* non-empty list naming the hashed attribute.
ProtectedChoices == { {}, {"value"} }

NoObj == [attrs |-> <<>>, items |-> <<>>]
NoCall == [op |-> "none", name |-> "", value |-> 0, site |-> 0]
NoResult == [out |-> "none", ret |-> 0, retKind |-> "none", delegated |-> FALSE,
             msgOp |-> "", msgTarget |-> "", traced |-> FALSE, msgSite |-> 0]

VARIABLES
  phase,          \* "unregistered", "registered" or "failed"
  target,         \* the value lazy_freeze was applied to
  debug,          \* the debug option
  protected_attrs,\* the protected_attrs option
  regError,       \* "none", "TypeError" or "AssertionError"
  wrapped,        \* the methods lazy_freeze installed on the class
  exists,         \* an instance has been constructed
  obj,            \* the instance: [attrs, items]
  pre,            \* the instance before the last call
  call,           \* the last call made on the instance
  result,         \* its outcome
  hashed,         \* the user's hash computation has returned a value
  firstSite,      \* the call site of the first hash call that returned
  lphase,         \* lf_list: "none", "built" or "failed" (constructor raised)
  lst,            \* the lf_list: [data, hash_taken, _debug, _hash_stack]
  lpre,           \* the lf_list before the last call
  lcall,          \* the last call made on the lf_list
  lres,           \* its outcome
  lhashed,        \* a hash call on the lf_list has returned a value
  lfirst,         \* <<v>>: the first hash call on the lf_list returned v
  pphase,         \* two instances: "none", "objs" or "lists"
  objs,           \* two instances of the registered type
  lsts,           \* two lf_list containers
  pcall           \* the last call on one of the two: [kind, who, op, out]

dvars == <<phase, target, debug, protected_attrs, regError, wrapped, exists,
           obj, pre, call, result, hashed, firstSite>>

lhist == <<lhashed, lfirst>>

lvars == <<lphase, lst, lpre, lcall, lres, lhashed, lfirst>>

pvars == <<pphase, objs, lsts, pcall>>

vars == <<dvars, lvars, pvars>>

\* --------------------------------------------------------- call outcomes
\* A call returns a value or raises; either way it leaves an instance state.
Return(o, kind, v) ==
  [obj |-> o, out |-> "ok", ret |-> v, retKind |-> kind, delegated |-> TRUE,
   msgOp |-> "", msgTarget |-> "", traced |-> FALSE, msgSite |-> 0]

Raise(o, err, wasDelegated) ==
  [obj |-> o, out |-> err, ret |-> 0, retKind |-> "none", delegated |-> wasDelegated,
   msgOp |-> "", msgTarget |-> "", traced |-> FALSE, msgSite |-> 0]

Args(n, v) == [name |-> n, value |-> v]

\* ------------------------------------------------- Python object protocol
hasattr(o, n) == n \in DOMAIN o.attrs

truthy(v) == v # 0

with_attr(o, n, v) ==
  [o EXCEPT !.attrs = [m \in (DOMAIN o.attrs) \cup {n} |->
                         IF m = n THEN v ELSE o.attrs[m]]]

without_attr(o, n) ==
  [o EXCEPT !.attrs = [m \in (DOMAIN o.attrs) \ {n} |-> o.attrs[m]]]

object_setattr(o, a) == Return(with_attr(o, a.name, a.value), "none", 0)

object_delattr(o, a) ==
  IF hasattr(o, a.name)
    THEN Return(without_attr(o, a.name), "none", 0)
    ELSE Raise(o, "AttributeError", TRUE)

\* ---------------------------------------------- the user's class (examples)
dict_setitem(o, a) ==
  Return([o EXCEPT !.items = [k \in (DOMAIN o.items) \cup {a.name} |->
                                IF k = a.name THEN a.value ELSE o.items[k]]],
         "none", 0)

container_delitem(o, a) ==
  IF a.name \in DOMAIN o.items
    THEN Return([o EXCEPT !.items = [k \in (DOMAIN o.items) \ {a.name} |-> o.items[k]]],
                "none", 0)
    ELSE Return(o, "none", 0)

ItemCode(o, k) == IF k \in DOMAIN o.items THEN o.items[k] + 1 ELSE 0

\* The value the user's __hash__ computes from the hashed attribute and the items.
UserHashValue(o) ==
  o.attrs["value"] + (MaxVal + 1) * (ItemCode(o, "value") + (MaxVal + 2) * ItemCode(o, "k"))

user_hash(o) ==
  IF hasattr(o, "value")
    THEN Return(o, "value", UserHashValue(o))
    ELSE Raise(o, "AttributeError", TRUE)

\* ------------------------------------------------------ lazy_freeze.wrap
\* Mutant of has_custom_hash: only the hasattr half of the test.
has_custom_hash_hasattr_only(t) == t.hashKind \in {"default", "custom", "none"}

has_custom_hash(t) == t.hashKind # "default"

\* original_hash = actual_cls.__hash__: the user's method, or None when the
\* class defines __eq__ without __hash__ (calling None raises TypeError).
original_hash(o) ==
  IF target.hashKind = "none"
    THEN Raise(o, "TypeError:notcallable", FALSE)
    ELSE user_hash(o)

\* The methods wrap() finds on the class and replaces.
mutating_methods(t) == core_methods \cup (optional_operations \cap t.defines)

\* Mutant of __hash__: the flag and the capture site set before the user's
\* hash computation is called.
hash_flag_first(o, site) ==
  LET o1 == with_attr(o, "hash_taken", PyTrue)
      o2 == IF debug THEN with_attr(o1, "_hash_stack_trace", site) ELSE o1
      h == original_hash(o)
  IN  IF h.out # "ok" THEN [h EXCEPT !.obj = o2]
                      ELSE Return(o2, "value", h.ret)

__hash__(o, site) ==
  LET h == original_hash(o) IN
  IF h.out # "ok"
    THEN h
    ELSE LET o1 == with_attr(h.obj, "hash_taken", PyTrue)
             o2 == IF debug THEN with_attr(o1, "_hash_stack_trace", site) ELSE o1
         IN  Return(o2, "value", h.ret)

format_error(method_name) ==
  CASE method_name = "__setattr__" -> "modify attribute"
    [] method_name = "__delattr__" -> "delete attribute"
    [] method_name = "__setitem__" -> "modify item"
    [] method_name = "__delitem__" -> "delete item"
    [] OTHER -> "modify with in-place addition"

get_error_message(o, method_name, a) ==
  [obj |-> o, out |-> "TypeError:frozen", ret |-> 0, retKind |-> "none",
   delegated |-> FALSE,
   msgOp |-> format_error(method_name),
   msgTarget |-> IF method_name \in named_methods THEN a.name ELSE "",
   traced |-> debug /\ hasattr(o, "_hash_stack_trace"),
   msgSite |-> IF debug /\ hasattr(o, "_hash_stack_trace")
                 THEN o.attrs["_hash_stack_trace"] ELSE 0]

is_frozen(o) == hasattr(o, "hash_taken") /\ truthy(o.attrs["hash_taken"])

RECURSIVE protected_method(_, _, _)

\* Counter.__iadd__: self.value += other, through the class's __setattr__.
counter_iadd(o, a) ==
  IF ~hasattr(o, "value")
    THEN Raise(o, "AttributeError", TRUE)
    ELSE LET r == protected_method("__setattr__", o,
                                   Args("value", o.attrs["value"] + a.value))
         IN  IF r.out = "ok" THEN Return(r.obj, "self", 0)
                             ELSE [r EXCEPT !.delegated = TRUE]

original(method_name, o, a) ==
  CASE method_name = "__setattr__" -> object_setattr(o, a)
    [] method_name = "__delattr__" -> object_delattr(o, a)
    [] method_name = "__setitem__" -> dict_setitem(o, a)
    [] method_name = "__delitem__" -> container_delitem(o, a)
    [] OTHER -> counter_iadd(o, a)

\* Mutants of protected_method: the freeze check made for attribute methods
\* only; the protected list ignored; the protected list applied to item keys
\* as well; the protected list applied to every method.
protected_method_core_only(method_name, o, a) ==
  IF is_frozen(o) /\ method_name \in core_methods
    THEN IF protected_attrs # {} /\ a.name \notin protected_attrs
           THEN original(method_name, o, a)
           ELSE get_error_message(o, method_name, a)
    ELSE original(method_name, o, a)

protected_method_ignore_list(method_name, o, a) ==
  IF is_frozen(o)
    THEN get_error_message(o, method_name, a)
    ELSE original(method_name, o, a)

protected_method_named(method_name, o, a) ==
  IF is_frozen(o)
    THEN IF /\ protected_attrs # {}
            /\ method_name \in named_methods
            /\ a.name \notin protected_attrs
           THEN original(method_name, o, a)
           ELSE get_error_message(o, method_name, a)
    ELSE original(method_name, o, a)

protected_method_any_unlisted(method_name, o, a) ==
  IF is_frozen(o)
    THEN IF protected_attrs # {} /\ a.name \notin protected_attrs
           THEN original(method_name, o, a)
           ELSE get_error_message(o, method_name, a)
    ELSE original(method_name, o, a)

protected_method(method_name, o, a) ==
  IF is_frozen(o)
    THEN IF /\ protected_attrs # {}
            /\ method_name \in core_methods
            /\ a.name \notin protected_attrs
           THEN original(method_name, o, a)
           ELSE get_error_message(o, method_name, a)
    ELSE original(method_name, o, a)

\* Python's dispatch of a special method: the replacement wrap() installed, or
\* the interpreter's TypeError when the class has no such method.
Invoke(method_name, o, a) ==
  IF method_name \in wrapped
    THEN protected_method(method_name, o, a)
    ELSE Raise(o, "TypeError:unsupported", FALSE)

\* ================================================================ lf_list
\* Elements are integers: 1..MaxElem are hashable values, DictElem is a
\* mutable mapping such as {"a": 1} (unhashable: its __hash__ is None).
DictElem == 0
Elems == 1 .. MaxElem
Values == Elems \cup {DictElem}

\* The sequences given to extend, + and +=: at most two elements.
ArgSeqs == {<<>>} \cup {<<a>> : a \in Values} \cup {<<a, b>> : a \in Values, b \in Values}

\* The initial elements given to the constructor.
InitSeqs == {<<>>} \cup {<<a>> : a \in Elems} \cup {<<a, b>> : a \in Elems, b \in Elems}

NoList == [data |-> <<>>, hash_taken |-> FALSE, _debug |-> FALSE, _hash_stack |-> 0]
NoLCall == [op |-> "none", index |-> 0, value |-> 0, seq |-> <<>>, site |-> 0,
            kw |-> "absent"]
NoLRes == [out |-> "none", retKind |-> "none", ret |-> 0, traced |-> FALSE, msgSite |-> 0]

LReturn(l, kind, v) ==
  [lst |-> l, out |-> "ok", retKind |-> kind, ret |-> v, traced |-> FALSE, msgSite |-> 0]

LRaise(l, err) ==
  [lst |-> l, out |-> err, retKind |-> "none", ret |-> 0, traced |-> FALSE, msgSite |-> 0]

\* hasattr(value, '__hash__'): every Python object has the attribute; an
\* unhashable type has it set to None.
hasattr_hash(e) == e \in Elems \cup {DictElem}

\* hash(e) of one element: raises for the mutable mapping.
hashable(e) == e # DictElem

RECURSIVE TupleHash(_)
\* hash(tuple(self.data)), order- and duplicate-sensitive
TupleHash(s) == IF s = <<>> THEN 0 ELSE Head(s) + (MaxElem + 1) * TupleHash(Tail(s))

\* lf_list.__init__(*args, **kwargs): UserList.__init__ takes the initial
\* list only, so a debug keyword ("True" or "False") makes it raise.
lf_init(initlist, debugKw) ==
  IF debugKw # "absent"
    THEN LRaise(NoList, "TypeError:unexpected-keyword")
    ELSE LReturn([data |-> initlist, hash_taken |-> FALSE,
                  _debug |-> (debugKw = "True"), _hash_stack |-> 0], "none", 0)

lf_hash(l, site) ==
  LET l1 == [l EXCEPT !.hash_taken = TRUE]
      l2 == IF l._debug THEN [l1 EXCEPT !._hash_stack = site] ELSE l1
  IN  IF \E i \in 1 .. Len(l.data) : ~hashable(l.data[i])
        THEN LRaise(l2, "TypeError:unhashable")
        ELSE LReturn(l2, "value", TupleHash(l.data))

frozen_error(l) ==
  [lst |-> l, out |-> "TypeError:frozen", retKind |-> "none", ret |-> 0,
   traced |-> l._debug, msgSite |-> IF l._debug THEN l._hash_stack ELSE 0]

\* validate(self, value=None); `value` is <<>> for None, <<v>> for a value.
validate(l, value) ==
  IF l._debug /\ \E i \in 1 .. Len(value) : ~hasattr_hash(value[i])
    THEN LRaise(l, "TypeError:unhashable-element")
    ELSE IF l.hash_taken THEN frozen_error(l)
                         ELSE LReturn(l, "none", 0)

validate_sequence(l, sequence) ==
  IF l._debug /\ \E i \in 1 .. Len(sequence) : ~hasattr_hash(sequence[i])
    THEN LRaise(l, "TypeError:unhashable-element")
    ELSE IF l.hash_taken THEN frozen_error(l)
                         ELSE LReturn(l, "none", 0)

\* ---- the built-in list operations on self.data (indexes are 0-based)
list_insert(d, i, v) ==
  LET k == IF i > Len(d) THEN Len(d) ELSE i
  IN  SubSeq(d, 1, k) \o <<v>> \o SubSeq(d, k + 1, Len(d))

list_without(d, i) == SubSeq(d, 1, i) \o SubSeq(d, i + 2, Len(d))

list_index(d, v) == CHOOSE i \in 0 .. Len(d) - 1 :
                      d[i + 1] = v /\ \A j \in 0 .. i - 1 : d[j + 1] # v

list_reversed(d) == [i \in 1 .. Len(d) |-> d[Len(d) + 1 - i]]

list_sorted(d) == SortSeq(d, LAMBDA a, b : a < b)

\* ---- the methods of lf_list
lf_setitem(l, index, value) ==
  LET c == validate(l, <<value>>) IN
  IF c.out # "ok" THEN c
  ELSE IF index >= Len(l.data) THEN LRaise(l, "IndexError")
  ELSE LReturn([l EXCEPT !.data[index + 1] = value], "none", 0)

lf_delitem(l, index) ==
  LET c == validate(l, <<>>) IN
  IF c.out # "ok" THEN c
  ELSE IF index >= Len(l.data) THEN LRaise(l, "IndexError")
  ELSE LReturn([l EXCEPT !.data = list_without(@, index)], "none", 0)

lf_append(l, value) ==
  LET c == validate(l, <<value>>) IN
  IF c.out # "ok" THEN c
  ELSE LReturn([l EXCEPT !.data = Append(@, value)], "self", 0)

\* extend calls validate_sequence() without its argument: TypeError, always.
lf_extend(l, iterable) == LRaise(l, "TypeError:missing-argument")

lf_insert(l, index, value) ==
  LET c == validate(l, <<value>>) IN
  IF c.out # "ok" THEN c
  ELSE LReturn([l EXCEPT !.data = list_insert(@, index, value)], "self", 0)

lf_pop_front(l, index) ==
  LET c == validate(l, <<>>)
      i == IF index = -1 THEN 0 ELSE index
  IN  IF c.out # "ok" THEN c
      ELSE IF i < 0 \/ i >= Len(l.data) THEN LRaise(l, "IndexError")
      ELSE LReturn([l EXCEPT !.data = list_without(@, i)], "value", l.data[i + 1])

\* pop(index=-1); index -1 is the last element
lf_pop(l, index) ==
  LET c == validate(l, <<>>)
      i == IF index = -1 THEN Len(l.data) - 1 ELSE index
  IN  IF c.out # "ok" THEN c
      ELSE IF i < 0 \/ i >= Len(l.data) THEN LRaise(l, "IndexError")
      ELSE LReturn([l EXCEPT !.data = list_without(@, i)], "value", l.data[i + 1])

lf_remove(l, value) ==
  LET c == validate(l, <<>>) IN
  IF c.out # "ok" THEN c
  ELSE IF \A i \in 1 .. Len(l.data) : l.data[i] # value THEN LRaise(l, "ValueError")
  ELSE LReturn([l EXCEPT !.data = list_without(@, list_index(@, value))], "self", 0)

lf_clear(l) ==
  LET c == validate(l, <<>>) IN
  IF c.out # "ok" THEN c
  ELSE LReturn([l EXCEPT !.data = <<>>], "self", 0)

lf_reverse(l) ==
  LET c == validate(l, <<>>) IN
  IF c.out # "ok" THEN c
  ELSE LReturn([l EXCEPT !.data = list_reversed(@)], "self", 0)

lf_sort(l) ==
  LET c == validate(l, <<>>) IN
  IF c.out # "ok" THEN c
  ELSE LReturn([l EXCEPT !.data = list_sorted(@)], "self", 0)

lf_add(l, other) ==
  LET c == validate_sequence(l, other) IN
  IF c.out # "ok" THEN c
  ELSE LReturn([l EXCEPT !.data = @ \o other], "self", 0)

\* __imul__ is inherited from UserList unchanged: self.data *= n; return self
RECURSIVE list_repeat(_, _)
list_repeat(d, n) == IF n <= 0 THEN <<>> ELSE d \o list_repeat(d, n - 1)

lf_imul(l, n) == LReturn([l EXCEPT !.data = list_repeat(@, n)], "self", 0)

lf_iadd(l, other) ==
  LET c == validate_sequence(l, other) IN
  IF c.out # "ok" THEN c
  ELSE LReturn([l EXCEPT !.data = @ \o other], "self", 0)

\* Two instances of one type, as p1 and p2 in the examples.
Ids == {1, 2}

NoPCall == [kind |-> "none", who |-> 0, op |-> "none", out |-> "none"]

\* ----------------------------------------------------------------- state
Init ==
  /\ phase = "unregistered"
  /\ target = [isClass |-> FALSE, hashKind |-> "default", defines |-> {}]
  /\ debug = FALSE
  /\ protected_attrs = {}
  /\ regError = "none"
  /\ wrapped = {}
  /\ exists = FALSE
  /\ obj = NoObj
  /\ pre = NoObj
  /\ call = NoCall
  /\ result = NoResult
  /\ hashed = FALSE
  /\ firstSite = 0
  /\ lphase = "none"
  /\ lst = NoList
  /\ lpre = NoList
  /\ lcall = NoLCall
  /\ lres = NoLRes
  /\ lhashed = FALSE
  /\ lfirst = <<>>
  /\ pphase = "none"
  /\ objs = [k \in Ids |-> NoObj]
  /\ lsts = [k \in Ids |-> NoList]
  /\ pcall = NoPCall

\* Mutant of Register: the hash assertion made before the class test.
Register_hash_first(t, dbg, prot) ==
  /\ phase = "unregistered"
  /\ target' = t
  /\ debug' = dbg
  /\ protected_attrs' = prot
  /\ IF ~has_custom_hash(t)
       THEN /\ phase' = "failed"
            /\ regError' = "AssertionError"
            /\ wrapped' = {}
       ELSE IF ~t.isClass
         THEN /\ phase' = "failed"
              /\ regError' = "TypeError"
              /\ wrapped' = {}
         ELSE /\ phase' = "registered"
              /\ regError' = "none"
              /\ wrapped' = {"__hash__"} \cup mutating_methods(t)
  /\ UNCHANGED <<exists, obj, pre, call, result, hashed, firstSite>>
  /\ UNCHANGED lvars
  /\ UNCHANGED pvars

\* lazy_freeze(cls, debug=..., protected_attrs=...) / wrap(actual_cls)
Register(t, dbg, prot) ==
  /\ phase = "unregistered"
  /\ target' = t
  /\ debug' = dbg
  /\ protected_attrs' = prot
  /\ IF ~t.isClass
       THEN /\ phase' = "failed"
            /\ regError' = "TypeError"
            /\ wrapped' = {}
       ELSE IF ~has_custom_hash(t)
         THEN /\ phase' = "failed"
              /\ regError' = "AssertionError"
              /\ wrapped' = {}
         ELSE /\ phase' = "registered"
              /\ regError' = "none"
              /\ wrapped' = {"__hash__"} \cup mutating_methods(t)
  /\ UNCHANGED <<exists, obj, pre, call, result, hashed, firstSite>>
  /\ UNCHANGED lvars
  /\ UNCHANGED pvars

\* The user's __init__: self.value = v; self.description = d
Construct(v, d) ==
  /\ phase = "registered"
  /\ ~exists
  /\ LET r1 == Invoke("__setattr__", NoObj, Args("value", v))
         r2 == Invoke("__setattr__", r1.obj, Args("description", d))
     IN  /\ obj' = r2.obj
         /\ pre' = r2.obj
  /\ exists' = TRUE
  /\ UNCHANGED <<phase, target, debug, protected_attrs, regError, wrapped,
                 call, result, hashed, firstSite>>
  /\ UNCHANGED lvars
  /\ UNCHANGED pvars

Apply(c, r) ==
  /\ pre' = obj
  /\ obj' = r.obj
  /\ call' = c
  /\ result' = [out |-> r.out, ret |-> r.ret, retKind |-> r.retKind,
                delegated |-> r.delegated, msgOp |-> r.msgOp,
                msgTarget |-> r.msgTarget, traced |-> r.traced,
                msgSite |-> r.msgSite]
  /\ UNCHANGED <<phase, target, debug, protected_attrs, regError, wrapped, exists>>
  /\ UNCHANGED lvars
  /\ UNCHANGED pvars

\* hash(obj), called from call site `site`
Hash(site) ==
  /\ exists
  /\ LET r == __hash__(obj, site) IN
       /\ Apply([op |-> "__hash__", name |-> "", value |-> 0, site |-> site], r)
       /\ hashed' = (hashed \/ r.out = "ok")
       /\ firstSite' = IF ~hashed /\ r.out = "ok" THEN site ELSE firstSite

Mutate(method_name, n, v) ==
  /\ exists
  /\ Apply([op |-> method_name, name |-> n, value |-> v, site |-> 0],
           Invoke(method_name, obj, Args(n, v)))
  /\ UNCHANGED <<hashed, firstSite>>

\* obj.n = v
SetAttr(n, v) == Mutate("__setattr__", n, v)

\* del obj.n
DelAttr(n) == Mutate("__delattr__", n, 0)

\* obj[k] = v
SetItem(k, v) == Mutate("__setitem__", k, v)

\* del obj[k]
DelItem(k) == Mutate("__delitem__", k, 0)

\* obj += other
IAdd(other) ==
  /\ exists
  /\ hasattr(obj, "value") => obj.attrs["value"] + other \in Vals
  /\ Mutate("__iadd__", "", other)

Next ==
  \/ \E t \in Targets, dbg \in BOOLEAN, prot \in ProtectedChoices : Register(t, dbg, prot)
  \/ \E v \in Vals, d \in Vals : Construct(v, d)
  \/ \E site \in Sites : Hash(site)
  \/ \E n \in AttrNames : \E v \in AssignVals(n) : SetAttr(n, v)
  \/ \E n \in AttrNames : DelAttr(n)
  \/ \E k \in Keys, v \in Vals : SetItem(k, v)
  \/ \E k \in Keys : DelItem(k)
  \/ \E other \in Vals : IAdd(other)

Spec == Init /\ [][Next]_vars

\* ------------------------------------------------------- lf_list actions
LCall(op, index, value, seq, site) ==
  [op |-> op, index |-> index, value |-> value, seq |-> seq, site |-> site,
   kw |-> "absent"]

LOutcome(r) ==
  [out |-> r.out, retKind |-> r.retKind, ret |-> r.ret,
   traced |-> r.traced, msgSite |-> r.msgSite]

\* lf_list(initlist) or lf_list(initlist, debug=...)
LConstruct(initlist, debugKw) ==
  /\ lphase = "none"
  /\ LET r == lf_init(initlist, debugKw) IN
       /\ lphase' = IF r.out = "ok" THEN "built" ELSE "failed"
       /\ lst' = r.lst
       /\ lpre' = r.lst
       /\ lcall' = [LCall("__init__", 0, 0, initlist, 0) EXCEPT !.kw = debugKw]
       /\ lres' = LOutcome(r)
  /\ UNCHANGED lhist
  /\ UNCHANGED dvars
  /\ UNCHANGED pvars

LApply(c, r) ==
  /\ lphase = "built"
  /\ lpre' = lst
  /\ lst' = r.lst
  /\ lcall' = c
  /\ lres' = LOutcome(r)
  /\ UNCHANGED lphase
  /\ UNCHANGED dvars
  /\ UNCHANGED pvars

\* hash(lst), called from call site `site`
LHash(site) ==
  LET r == lf_hash(lst, site) IN
    /\ LApply(LCall("__hash__", 0, 0, <<>>, site), r)
    /\ lhashed' = (lhashed \/ r.out = "ok")
    /\ lfirst' = IF ~lhashed /\ r.out = "ok" THEN <<r.ret>> ELSE lfirst

\* lst._debug = b: the attribute assignment that switches diagnostics mode
LSetDebug(b) ==
  /\ lst._debug # b
  /\ LApply(LCall("_debug", 0, 0, <<>>, 0), LReturn([lst EXCEPT !._debug = b], "none", 0))
  /\ UNCHANGED lhist

Fits(n) == Len(lst.data) + n <= MaxLen

LSetItem(i, v) ==
  LApply(LCall("__setitem__", i, v, <<>>, 0), lf_setitem(lst, i, v)) /\ UNCHANGED lhist

LDelItem(i) ==
  LApply(LCall("__delitem__", i, 0, <<>>, 0), lf_delitem(lst, i)) /\ UNCHANGED lhist

LAppend(v) ==
  Fits(1) /\ LApply(LCall("append", 0, v, <<>>, 0), lf_append(lst, v)) /\ UNCHANGED lhist

LExtend(seq) ==
  Fits(Len(seq)) /\ LApply(LCall("extend", 0, 0, seq, 0), lf_extend(lst, seq))
    /\ UNCHANGED lhist

LInsert(i, v) ==
  Fits(1) /\ LApply(LCall("insert", i, v, <<>>, 0), lf_insert(lst, i, v)) /\ UNCHANGED lhist

LPop(i) ==
  LApply(LCall("pop", i, 0, <<>>, 0), lf_pop(lst, i)) /\ UNCHANGED lhist

LRemove(v) ==
  LApply(LCall("remove", 0, v, <<>>, 0), lf_remove(lst, v)) /\ UNCHANGED lhist

LClear ==
  LApply(LCall("clear", 0, 0, <<>>, 0), lf_clear(lst)) /\ UNCHANGED lhist

LReverse ==
  LApply(LCall("reverse", 0, 0, <<>>, 0), lf_reverse(lst)) /\ UNCHANGED lhist

\* sort() of elements that can be compared with each other
LSort ==
  /\ \A i \in 1 .. Len(lst.data) : lst.data[i] \in Elems
  /\ LApply(LCall("sort", 0, 0, <<>>, 0), lf_sort(lst))
  /\ UNCHANGED lhist

LAdd(seq) ==
  Fits(Len(seq)) /\ LApply(LCall("__add__", 0, 0, seq, 0), lf_add(lst, seq))
    /\ UNCHANGED lhist

LIAdd(seq) ==
  Fits(Len(seq)) /\ LApply(LCall("__iadd__", 0, 0, seq, 0), lf_iadd(lst, seq))
    /\ UNCHANGED lhist

\* lst *= n
LIMul(n) ==
  /\ Len(lst.data) * n <= MaxLen
  /\ LApply(LCall("__imul__", 0, n, <<>>, 0), lf_imul(lst, n))
  /\ UNCHANGED lhist

LNext ==
  \/ \E initlist \in InitSeqs, kw \in {"absent", "True", "False"} : LConstruct(initlist, kw)
  \/ \E site \in Sites : LHash(site)
  \/ \E b \in BOOLEAN : LSetDebug(b)
  \/ \E i \in 0 .. MaxLen - 1, v \in Values : LSetItem(i, v)
  \/ \E i \in 0 .. MaxLen - 1 : LDelItem(i)
  \/ \E v \in Values : LAppend(v)
  \/ \E seq \in ArgSeqs : LExtend(seq)
  \/ \E i \in 0 .. MaxLen - 1, v \in Values : LInsert(i, v)
  \/ \E i \in -1 .. MaxLen - 1 : LPop(i)
  \/ \E v \in Values : LRemove(v)
  \/ LClear
  \/ LReverse
  \/ LSort
  \/ \E seq \in ArgSeqs : LAdd(seq)
  \/ \E seq \in ArgSeqs : LIAdd(seq)
  \/ \E n \in 0 .. MaxLen : LIMul(n)

SpecList == Init /\ [][LNext]_vars

\* ------------------------------------------------- two instances of a type
\* The user's __init__ run on a fresh instance: self.value = v; self.description = d
new_instance(v, d) ==
  Invoke("__setattr__", Invoke("__setattr__", NoObj, Args("value", v)).obj,
         Args("description", d)).obj

PRegister(t, dbg, prot) == pphase = "none" /\ Register(t, dbg, prot)

\* p1 = C(v1); p2 = C(v2)
PConstruct(v1, v2) ==
  /\ phase = "registered"
  /\ pphase = "none"
  /\ pphase' = "objs"
  /\ objs' = [k \in Ids |-> new_instance(IF k = 1 THEN v1 ELSE v2, 0)]
  /\ UNCHANGED <<lsts, pcall>>
  /\ UNCHANGED <<dvars, lvars>>

PApply(i, op, r) ==
  /\ pphase = "objs"
  /\ objs' = [objs EXCEPT ![i] = r.obj]
  /\ pcall' = [kind |-> "obj", who |-> i, op |-> op, out |-> r.out]
  /\ UNCHANGED <<pphase, lsts>>
  /\ UNCHANGED <<dvars, lvars>>

\* The hash wrapper with the flag kept on the class instead of on self.
PHash_shared(i, site) ==
  /\ pphase = "objs"
  /\ LET r == __hash__(objs[i], site) IN
       /\ objs' = [k \in Ids |->
                     IF k = i THEN r.obj
                     ELSE IF r.out = "ok" THEN with_attr(objs[k], "hash_taken", PyTrue)
                     ELSE objs[k]]
       /\ pcall' = [kind |-> "obj", who |-> i, op |-> "__hash__", out |-> r.out]
  /\ UNCHANGED <<pphase, lsts>>
  /\ UNCHANGED <<dvars, lvars>>

\* hash(p_i)
PHash(i, site) == PApply(i, "__hash__", __hash__(objs[i], site))

\* p_i.value = v
PSetAttr(i, v) ==
  PApply(i, "__setattr__", Invoke("__setattr__", objs[i], Args("value", v)))

\* del p_i.value
PDelAttr(i) ==
  PApply(i, "__delattr__", Invoke("__delattr__", objs[i], Args("value", 0)))

\* a = lf_list(s1); b = lf_list(s2)
PLConstruct(s1, s2) ==
  /\ phase = "unregistered"
  /\ pphase = "none"
  /\ pphase' = "lists"
  /\ lsts' = [k \in Ids |-> lf_init(IF k = 1 THEN s1 ELSE s2, "absent").lst]
  /\ UNCHANGED <<objs, pcall>>
  /\ UNCHANGED <<dvars, lvars>>

PLApply(i, op, r) ==
  /\ pphase = "lists"
  /\ lsts' = [lsts EXCEPT ![i] = r.lst]
  /\ pcall' = [kind |-> "list", who |-> i, op |-> op, out |-> r.out]
  /\ UNCHANGED <<pphase, objs>>
  /\ UNCHANGED <<dvars, lvars>>

\* hash(lst_i)
PLHash(i, site) == PLApply(i, "__hash__", lf_hash(lsts[i], site))

\* lst_i.append(v)
PLAppend(i, v) ==
  /\ Len(lsts[i].data) + 1 <= MaxLen
  /\ PLApply(i, "append", lf_append(lsts[i], v))

\* lst_i.pop()
PLPop(i) == PLApply(i, "pop", lf_pop(lsts[i], -1))

PNext ==
  \/ \E t \in Targets, dbg \in BOOLEAN, prot \in ProtectedChoices : PRegister(t, dbg, prot)
  \/ \E v1 \in Vals, v2 \in Vals : PConstruct(v1, v2)
  \/ \E i \in Ids, site \in Sites : PHash(i, site)
  \/ \E i \in Ids, v \in Vals : PSetAttr(i, v)
  \/ \E i \in Ids : PDelAttr(i)
  \/ \E s1 \in InitSeqs, s2 \in InitSeqs : PLConstruct(s1, s2)
  \/ \E i \in Ids, site \in Sites : PLHash(i, site)
  \/ \E i \in Ids, v \in Values : PLAppend(i, v)
  \/ \E i \in Ids : PLPop(i)

SpecPair == Init /\ [][PNext]_vars

\* ================================================================ claims
\* The last call was a mutating call that reached a replacement wrap() installed.
GuardedCall == exists /\ call.op \in (core_methods \cup optional_operations) /\ call.op \in wrapped

Rejected == result.out = "TypeError:frozen" /\ ~result.delegated /\ obj = pre

\* The attribute assignment or deletion of the last call took effect.
AttrEffect ==
  IF call.op = "__setattr__"
    THEN /\ result.out = "ok"
         /\ obj = with_attr(pre, call.name, call.value)
    ELSE hasattr(pre, call.name) =>
           /\ result.out = "ok"
           /\ obj = without_attr(pre, call.name)

\* C1: once the freeze flag of an instance is true it is true in every later
\* state, whatever hash calls and mutation attempts are made.
C1_FlagNeverReset == (exists /\ is_frozen(pre)) => is_frozen(obj)

\* C2: under the protect-everything policy every guarded operation on a frozen
\* instance raises the mutation-rejected error without invoking the original,
\* and the instance is unchanged.
C2_ProtectAllRejects ==
  (GuardedCall /\ protected_attrs = {} /\ is_frozen(pre)) => Rejected

C2_Witness ==
  /\ GuardedCall /\ protected_attrs = {} /\ is_frozen(pre)
  /\ call.op = "__delitem__" /\ call.name \in DOMAIN pre.items
  /\ Rejected

\* C3: on an instance whose hash has never been computed every guarded
\* operation is delegated to the original and never raises a freeze error.
C3_UnhashedAllowed ==
  (GuardedCall /\ ~hashed) => (result.delegated /\ result.out # "TypeError:frozen")

\* C4: with a non-empty protected list, on a frozen instance assigning or
\* deleting a listed attribute is rejected and assigning or deleting an
\* unlisted attribute takes effect; on an unfrozen instance both take effect.
C4_SelectiveProtection ==
  (GuardedCall /\ protected_attrs # {} /\ call.op \in core_methods) =>
     IF is_frozen(pre) /\ call.name \in protected_attrs
       THEN Rejected
       ELSE AttrEffect /\ result.out # "TypeError:frozen"

C4_Witness ==
  /\ GuardedCall /\ protected_attrs # {} /\ is_frozen(pre)
  /\ call.op = "__setattr__" /\ call.name = "description"
  /\ result.out = "ok"
  /\ hasattr(pre, "description") /\ obj.attrs["description"] # pre.attrs["description"]

C6_InPlaceAlwaysRejected ==
  (GuardedCall /\ call.op = "__iadd__" /\ is_frozen(pre)) => Rejected

C6_Witness ==
  /\ GuardedCall /\ call.op = "__iadd__" /\ is_frozen(pre)
  /\ protected_attrs # {} /\ call.value # 0
  /\ Rejected

\* C7: the wrapped hash returns the value of the user's hash computation, and
\* of two consecutive hash calls the second returns the same value and leaves
\* the instance (flag, capture site, attributes, items) as it was.
C7_HashRepeatable ==
  [][ /\ (call'.op = "__hash__" /\ result'.out = "ok")
           => result'.ret = UserHashValue(obj)
      /\ (call.op = "__hash__" /\ result.out = "ok" /\ call'.op = "__hash__")
           => (result'.out = "ok" /\ result'.ret = result.ret /\ obj' = obj)
    ]_vars

\* C8: in diagnostics mode the capture site is the call site of the first hash
\* call: later hash calls leave it unchanged, and the rejection error reports it.
C8_FirstSiteKept ==
  (exists /\ debug /\ hashed /\ hasattr(obj, "_hash_stack_trace")) =>
     /\ obj.attrs["_hash_stack_trace"] = firstSite
     /\ (GuardedCall /\ result.out = "TypeError:frozen")
          => (result.traced /\ result.msgSite = firstSite)

\* C9: registering a class that has only the default identity hash fails with
\* the contract violation (AssertionError); no wrapper is installed and no
\* instance of a registered type comes to exist.
C9_DefaultHashRefused ==
  (phase # "unregistered" /\ target.isClass /\ target.hashKind = "default") =>
     /\ phase = "failed"
     /\ regError = "AssertionError"
     /\ wrapped = {}
     /\ ~exists

C9_Witness ==
  /\ phase = "failed" /\ target.isClass /\ target.hashKind = "default"
  /\ regError = "AssertionError"

\* C10: registering a class that defines equality but no hash of its own (its
\* __hash__ is None) fails with the contract violation, like a class with only
\* the default hash.
C10_DisabledHashRefused ==
  (phase # "unregistered" /\ target.isClass /\ target.hashKind = "none") =>
     /\ phase = "failed"
     /\ regError = "AssertionError"
     /\ wrapped = {}

\* C15: an optional operation the registered class never defined raises the
\* interpreter's unsupported-operation error on an unfrozen instance and the
\* freeze error on a frozen one.
C15_UndefinedOperation ==
  (exists /\ call.op \in optional_operations /\ call.op \notin target.defines) =>
     IF is_frozen(pre) THEN result.out = "TypeError:frozen"
                       ELSE result.out = "TypeError:unsupported"

C20_FailedHashSetsNothing ==
  (exists /\ call.op = "__hash__" /\ result.out # "ok") =>
     /\ result.out \in {"AttributeError", "TypeError:notcallable"}
     /\ obj = pre
     /\ ~is_frozen(pre) => ~is_frozen(obj)
     /\ ~hasattr(pre, "_hash_stack_trace") => ~hasattr(obj, "_hash_stack_trace")
     /\ ~is_frozen(pre) =>
          \A m \in wrapped \ {"__hash__"} : \A n \in AttrNames \cup Keys : \A v \in Vals :
             protected_method(m, obj, Args(n, v)).out # "TypeError:frozen"

C20_Witness ==
  /\ exists /\ debug /\ call.op = "__hash__" /\ result.out = "AttributeError"
  /\ ~hashed /\ ~is_frozen(obj) /\ ~hasattr(obj, "_hash_stack_trace")

\* ------------------------------------------------------ lf_list claims
list_mutators ==
  {"append", "insert", "remove", "pop", "clear", "reverse", "sort", "extend",
   "__add__", "__iadd__", "__setitem__", "__delitem__"}

list_inserters == {"append", "insert", "__setitem__", "extend", "__add__", "__iadd__"}

chaining_methods ==
  {"append", "insert", "remove", "clear", "reverse", "sort", "extend",
   "__add__", "__iadd__"}

ListCall == lphase = "built" /\ lcall.op \in list_mutators

\* The position a call names, as a 0-based index into d (pop's default is the
\* last position).
Position(d, c) == IF c.op = "pop" /\ c.index = -1 THEN Len(d) - 1 ELSE c.index

\* The call is one a plain ordered sequence accepts.
PlainAccepts(d, c) ==
  CASE c.op = "remove" -> \E i \in 1 .. Len(d) : d[i] = c.value
    [] c.op \in {"pop", "__setitem__", "__delitem__"} ->
         Position(d, c) >= 0 /\ Position(d, c) < Len(d)
    [] OTHER -> TRUE

\* What the corresponding operation makes of a plain ordered sequence d.
PlainResult(d, c) ==
  CASE c.op = "append" -> Append(d, c.value)
    [] c.op = "insert" -> list_insert(d, c.index, c.value)
    [] c.op = "remove" -> list_without(d, list_index(d, c.value))
    [] c.op \in {"pop", "__delitem__"} -> list_without(d, Position(d, c))
    [] c.op = "clear" -> <<>>
    [] c.op = "reverse" -> list_reversed(d)
    [] c.op = "sort" -> list_sorted(d)
    [] c.op \in {"extend", "__add__", "__iadd__"} -> d \o c.seq
    [] c.op = "__setitem__" -> [d EXCEPT ![c.index + 1] = c.value]
    [] OTHER -> d

\* The elements an inserting call is given.
Inserted(c) == IF c.op \in {"extend", "__add__", "__iadd__"} THEN c.seq ELSE <<c.value>>

\* C11: once the container's hash has been computed, every mutating operation
\* of the surface is rejected with the mutation-after-freeze error and leaves
\* the element sequence as it was.
C11_FrozenListRejects ==
  (ListCall /\ lhashed) => (lres.out = "TypeError:frozen" /\ lst.data = lpre.data)

\* C12: on a container whose hash has not been computed (diagnostics off),
\* every mutating operation a plain ordered sequence accepts succeeds and
\* changes the element sequence as the plain operation would.
C12_UnfrozenListMutates ==
  (ListCall /\ ~lhashed /\ ~lpre.hash_taken /\ ~lpre._debug /\ PlainAccepts(lpre.data, lcall)) =>
     (lres.out = "ok" /\ lst.data = PlainResult(lpre.data, lcall))

\* C13: construction with the diagnostics flag given explicitly succeeds and
\* yields an unfrozen container holding the initial elements in order, without
\* capture site, whose diagnostics mode is the given flag.
C13_DebugConstruction ==
  (lcall.op = "__init__" /\ lcall.kw # "absent") =>
     /\ lres.out = "ok"
     /\ lphase = "built"
     /\ lst.data = lcall.seq
     /\ ~lst.hash_taken
     /\ lst._hash_stack = 0
     /\ lst._debug = (lcall.kw = "True")

\* C14: in diagnostics mode, frozen or not, an inserting operation given a
\* non-hashable element raises the unhashable-element error and leaves the
\* element sequence unchanged.
C14_UnhashableRefused ==
  (/\ ListCall /\ lcall.op \in list_inserters /\ lpre._debug
   /\ \E i \in 1 .. Len(Inserted(lcall)) : ~hashable(Inserted(lcall)[i])) =>
     (lres.out = "TypeError:unhashable-element" /\ lst.data = lpre.data)

\* C18: on an unfrozen container every successful chaining method returns the
\* container it was called on; a successful pop returns the element at the
\* given position (by default the last one) and removes it.
C18_ReturnValues ==
  (ListCall /\ ~lpre.hash_taken /\ lres.out = "ok") =>
     /\ lcall.op \in chaining_methods => lres.retKind = "self"
     /\ lcall.op = "pop" =>
          /\ lres.retKind = "value"
          /\ lres.ret = lpre.data[Position(lpre.data, lcall) + 1]
          /\ lst.data = list_without(lpre.data, Position(lpre.data, lcall))

C18_Witness ==
  /\ ListCall /\ lcall.op = "pop" /\ lcall.index = -1 /\ lres.out = "ok"
  /\ ~lpre.hash_taken /\ Len(lpre.data) = 2 /\ lpre.data[1] # lpre.data[2]
  /\ lres.ret = lpre.data[2] /\ lst.data = <<lpre.data[1]>>

\* C19: a container becomes frozen only when its hash computation has produced
\* a value: after a failed hash computation an unfrozen container is still
\* unfrozen.
C19_FailedHashLeavesUnfrozen ==
  (lphase = "built" /\ lcall.op = "__hash__" /\ lres.out # "ok" /\ ~lpre.hash_taken) =>
     ~lst.hash_taken

\* ------------------------------------------------- invariants of both kinds
\* C21: in every reachable state, for a registered-type instance and for a
\* sequence container, the capture site is present if and only if diagnostics
\* mode is enabled and the entity is frozen.
C21_CaptureSiteIffDebugFrozen ==
  /\ exists => (hasattr(obj, "_hash_stack_trace") <=> (debug /\ is_frozen(obj)))
  /\ lphase = "built" => ((lst._hash_stack # 0) <=> (lst._debug /\ lst.hash_taken))

\* C22: no attribute assignment or deletion made through the augmented type
\* changes whether the instance is frozen, and an instance is frozen if and
\* only if its hash has been computed.
C22_FreezeOnlyByHash ==
  exists =>
    /\ call.op \in {"__setattr__", "__delattr__"} => (is_frozen(obj) <=> is_frozen(pre))
    /\ is_frozen(obj) <=> hashed

\* C23: after the container's hash has been computed no operation available
\* on it, overridden or inherited, changes its element sequence, and every
\* later hash call returns the value the first one returned.
C23_FrozenListImmutable ==
  (lphase = "built" /\ lhashed) =>
     /\ lst.data = lpre.data
     /\ (lcall.op = "__hash__" /\ lres.out = "ok") => lfirst = <<lres.ret>>

\* C24: freeze state is per instance. A hash call on one instance (or one
\* container) leaves the flag, capture site and contents of the other one
\* unchanged, and if the other one was unfrozen none of its guarded mutations
\* is refused afterwards.
OtherUntouched(i, j) ==
  /\ objs'[j] = objs[j]
  /\ lsts'[j] = lsts[j]
  /\ (pphase = "objs" /\ ~is_frozen(objs[j])) =>
       \A m \in wrapped \ {"__hash__"} : \A n \in AttrNames \cup Keys : \A v \in Vals :
          protected_method(m, objs'[j], Args(n, v)).out # "TypeError:frozen"
  /\ (pphase = "lists" /\ ~lsts[j].hash_taken) =>
       \A v \in Values : lf_append(lsts'[j], v).out = "ok"

C24_PerInstanceFreeze ==
  [][\A i \in Ids : \A j \in Ids \ {i} :
       (pcall'.op = "__hash__" /\ pcall'.who = i) => OtherUntouched(i, j)]_vars

C24_Witness ==
  /\ pphase = "objs" /\ debug
  /\ is_frozen(objs[1]) /\ hasattr(objs[1], "_hash_stack_trace")
  /\ ~is_frozen(objs[2]) /\ ~hasattr(objs[2], "_hash_stack_trace")
  /\ pcall.who = 2 /\ pcall.op = "__setattr__" /\ pcall.out = "ok"
  /\ objs[2].attrs["value"] # objs[1].attrs["value"]

====
